---- MODULE Spec2Model ----
(***************************************************************************)
(* A model of queue.c (lab0-c): a queue of strings kept in a circular,     *)
(* doubly linked list with one sentinel node.  The heap is modelled at the *)
(* level of the link fields: every list node has a `next' and a `prev'     *)
(* field, every element a `value' field pointing at its own string.        *)
(***************************************************************************)
EXTENDS Integers, Sequences, FiniteSets, TLC

\* ------------------------------------------------------------------ bounds
\* Number of element nodes the allocator can hand out.
MaxNodes == 6
\* Longest queue, over arbitrary strings, the transformations are started on.
MaxLen == 5
\* Number of successful insertions and removals one run of the queue makes.
MaxCalls == 4
\* Largest buffer size handed to a removal.
MaxBuf == 4

\* ------------------------------------------------------------- the heap
\* The sentinel of the queue (the struct list_head q_new allocates).
Sentinel == 0
\* The null pointer.
NULL == -1
\* The element nodes: node e stands for element_t e and its embedded list.
Elems == 1 .. MaxNodes
Nodes == {Sentinel} \cup Elems

\* Strings are sequences of character codes; the terminator is implicit.
\* "a", "aa", "b", "c": the second has the first as a proper prefix.
Strings == { <<97>>, <<97, 97>>, <<98>>, <<99>> }
\* "a" .. "f"
Letters == { <<97>>, <<98>>, <<99>>, <<100>>, <<101>>, <<102>> }
\* The value field of a node that holds no string.
NoStr == << -1 >>

VARIABLES
    head,     \* the caller's queue handle: Sentinel, or NULL when q_new failed
    next,     \* next[n]: the next field of list node n
    prev,     \* prev[n]: the prev field of list node n
    value,    \* value[e]: the string the value field of element e points at
    live,     \* the element nodes that are allocated
    strLive,  \* the elements whose string is allocated
    op,       \* the last operation called
    ret,      \* what it returned
    pre,      \* the queue, head to tail, as <<node, string>> pairs, before it
    log,      \* the successful insertions and removals on the queue held, in call order
    sp        \* the buffer of the last call, if it was a removal: the pointer
              \* and size passed, the bytes stored, the highest index read

vars == <<head, next, prev, value, live, strLive, op, ret, pre, log, sp>>

\* The memory as one record, for the operators that model the functions.
Mem == [next |-> next, prev |-> prev, value |-> value, live |-> live,
        strLive |-> strLive]

Store(m) ==
    /\ next' = m.next
    /\ prev' = m.prev
    /\ value' = m.value
    /\ live' = m.live
    /\ strLive' = m.strLive

\* ------------------------------------------------------ list.h primitives
\* One store to a link field: n->next = v, n->prev = v.
SetNext(m, n, v) == [m EXCEPT !.next[n] = v]
SetPrev(m, n, v) == [m EXCEPT !.prev[n] = v]

\* INIT_LIST_HEAD(h): h->next = h; h->prev = h
INIT_LIST_HEAD(m, h) == SetPrev(SetNext(m, h, h), h, h)

\* list_empty(h)
list_empty(m, h) == m.next[h] = h

\* list_add(node, h): link node right after h
list_add(m, node, h) ==
    LET nx == m.next[h]
        m1 == SetPrev(m, nx, node)
        m2 == SetNext(m1, node, nx)
        m3 == SetPrev(m2, node, h)
    IN  SetNext(m3, h, node)

\* list_add_tail(node, h): link node right before h
list_add_tail(m, node, h) ==
    LET pv == m.prev[h]
        m1 == SetNext(m, pv, node)
        m2 == SetNext(m1, node, h)
        m3 == SetPrev(m2, node, pv)
    IN  SetPrev(m3, h, node)

\* list_del(node): unlink node; its own link fields keep their old values
list_del(m, node) ==
    LET nx == m.next[node]
        pv == m.prev[node]
        m1 == SetPrev(m, nx, pv)
    IN  SetNext(m1, pv, nx)

\* ------------------------------------------------------------ allocator
\* malloc(sizeof(element_t)): NULL, or the lowest free node.
Malloc(m) ==
    LET free == Elems \ m.live
    IN  {NULL} \cup {e \in free : \A f \in free : e <= f}

\* free(e->value), then free(e): the fields of freed memory are not modelled
free_value(m, e) ==
    [m EXCEPT !.value[e] = NoStr, !.strLive = @ \ {e}]

free_node(m, e) ==
    [m EXCEPT !.next[e] = NULL, !.prev[e] = NULL, !.live = @ \ {e}]

\* The address strdup returned for the string of element e: malloc'ed memory
\* is aligned, so the address is even (and not null).
StrAddr(e) == 16 * e

\* ------------------------------------------------------------- traversal
\* The nodes met going forward from the sentinel until it is met again (or a
\* null link, or more nodes than there are).
RECURSIVE FwdFrom(_, _, _, _)
FwdFrom(m, h, n, k) ==
    IF n = h \/ n = NULL \/ k = 0 THEN <<>>
    ELSE <<n>> \o FwdFrom(m, h, m.next[n], k - 1)

Fwd(m, h) == IF h = NULL THEN <<>> ELSE FwdFrom(m, h, m.next[h], MaxNodes + 1)

\* The same going backward.
RECURSIVE BwdFrom(_, _, _, _)
BwdFrom(m, h, n, k) ==
    IF n = h \/ n = NULL \/ k = 0 THEN <<>>
    ELSE <<n>> \o BwdFrom(m, h, m.prev[n], k - 1)

Bwd(m, h) == IF h = NULL THEN <<>> ELSE BwdFrom(m, h, m.prev[h], MaxNodes + 1)

\* The queue as the caller sees it: <<node, string>> from head to tail.
Queue(m, h) == LET f == Fwd(m, h) IN [i \in 1 .. Len(f) |-> <<f[i], m.value[f[i]]>>]

StrsOf(q) == [i \in 1 .. Len(q) |-> q[i][2]]
Reverse(s) == [i \in 1 .. Len(s) |-> s[Len(s) + 1 - i]]

\* ------------------------------------------------------------------ q_new
\* The memory before any allocation.
EmptyMem ==
    [next |-> [n \in Nodes |-> NULL], prev |-> [n \in Nodes |-> NULL],
     value |-> [e \in Elems |-> NoStr], live |-> {}, strLive |-> {}]

\* q_new(): the sentinel, initialised, or NULL when malloc fails
q_new(m, ok) ==
    IF ok THEN [mem |-> INIT_LIST_HEAD(m, Sentinel), ret |-> Sentinel]
    ELSE [mem |-> m, ret |-> NULL]

\* ---------------------------------------------------------- q_insert_head
\* A q_insert_head that keeps the element when strdup fails.
q_insert_head_leak(m, h, s, node, dup) ==
    IF h = NULL THEN [mem |-> m, ret |-> FALSE]
    ELSE IF node = NULL THEN [mem |-> m, ret |-> FALSE]
    ELSE LET m1 == [m EXCEPT !.live = @ \cup {node}] IN
         IF ~dup THEN [mem |-> m1, ret |-> FALSE]
         ELSE LET m2 == [m1 EXCEPT !.value[node] = s, !.strLive = @ \cup {node}]
              IN  [mem |-> list_add(m2, node, h), ret |-> TRUE]

\* node: what malloc returns; dup: whether strdup succeeds
q_insert_head(m, h, s, node, dup) ==
    IF h = NULL THEN [mem |-> m, ret |-> FALSE]
    ELSE IF node = NULL THEN [mem |-> m, ret |-> FALSE]
    ELSE LET m1 == [m EXCEPT !.live = @ \cup {node}] IN
         IF ~dup THEN [mem |-> free_node(m1, node), ret |-> FALSE]
         ELSE LET m2 == [m1 EXCEPT !.value[node] = s, !.strLive = @ \cup {node}]
              IN  [mem |-> list_add(m2, node, h), ret |-> TRUE]

\* ---------------------------------------------------------- q_insert_tail
\* A q_insert_tail that links the new element with list_add.
q_insert_tail_at_head(m, h, s, node, dup) ==
    IF h = NULL THEN [mem |-> m, ret |-> FALSE]
    ELSE IF node = NULL THEN [mem |-> m, ret |-> FALSE]
    ELSE LET m1 == [m EXCEPT !.live = @ \cup {node}] IN
         IF ~dup THEN [mem |-> free_node(m1, node), ret |-> FALSE]
         ELSE LET m2 == [m1 EXCEPT !.value[node] = s, !.strLive = @ \cup {node}]
              IN  [mem |-> list_add(m2, node, h), ret |-> TRUE]

q_insert_tail(m, h, s, node, dup) ==
    IF h = NULL THEN [mem |-> m, ret |-> FALSE]
    ELSE IF node = NULL THEN [mem |-> m, ret |-> FALSE]
    ELSE LET m1 == [m EXCEPT !.live = @ \cup {node}] IN
         IF ~dup THEN [mem |-> free_node(m1, node), ret |-> FALSE]
         ELSE LET m2 == [m1 EXCEPT !.value[node] = s, !.strLive = @ \cup {node}]
              IN  [mem |-> list_add_tail(m2, node, h), ret |-> TRUE]

\* ------------------------------------------------------------- min, abs
\* abs_branchless(a)
abs_branchless(a) == IF a > 0 THEN a ELSE -a

\* min(a, b)
min(a, b) == IF a - b > 0 THEN b ELSE a

\* strlen(s)
strlen(s) == Len(s)

\* s[k] for 0 <= k <= strlen(s); past the terminator the byte read is not
\* the string's (and the only such read is masked to 0 below).
ByteAt(s, k) == IF k < Len(s) THEN s[k + 1] ELSE 0

\* The copy loop of q_remove_head and q_remove_tail:
\*   while (len >= 0) { mask = -!!(len ^ i); sp[len] = value[len] & mask; len--; }
\* b.buf: the bytes stored through sp, by index; b.rd: the highest index of
\* the string that was read.
RECURSIVE CopyLoop(_, _, _, _)
CopyLoop(b, s, len, i) ==
    IF len >= 0
    THEN LET byte == IF len # i THEN ByteAt(s, len) ELSE 0
             b1 == [buf |-> [k \in (DOMAIN b.buf) \cup {len} |->
                                IF k = len THEN byte ELSE b.buf[k]],
                    rd |-> IF len > b.rd THEN len ELSE b.rd]
         IN  CopyLoop(b1, s, len - 1, i)
    ELSE b

\* A buffer nothing was stored to.
NoBuf == [buf |-> << >>, rd |-> -1]

\* The caller's buffer pointer: whether it is null, and (int32_t)(intptr_t) sp,
\* the low 32 bits of its address, which is all the code looks at.
SpPtrs == {[null |-> TRUE, low |-> 0]} \cup
          {[null |-> FALSE, low |-> a] : a \in {2, 4096, -4096}}
BufSizes == 0 .. MaxBuf

\* What a removal called with pointer p and size bufsize leaves in sp, b being
\* what its copy loop did; and what a call that takes no buffer leaves.
Buffer(p, bufsize, b) ==
    [null |-> p.null, low |-> p.low, size |-> bufsize, buf |-> b.buf, rd |-> b.rd]

NoBuffer == Buffer([null |-> TRUE, low |-> 0], 0, NoBuf)

\* ---------------------------------------------------------- q_remove_head
\* A q_remove_head that takes head->prev.
q_remove_head_last(m, h, p, bufsize) ==
    IF h = NULL \/ list_empty(m, h) THEN [mem |-> m, ret |-> NULL, sp |-> NoBuf]
    ELSE LET node == m.prev[h]
             m1 == list_del(m, node)
             len == min(min(bufsize - 1, strlen(m.value[node]) + 1),
                        abs_branchless(p.low) - 1)
         IN  [mem |-> m1, ret |-> node,
              sp |-> CopyLoop(NoBuf, m.value[node], len, len)]

\* A q_remove_head whose copy length leaves the buffer pointer out.
q_remove_head_unguarded(m, h, p, bufsize) ==
    IF h = NULL \/ list_empty(m, h) THEN [mem |-> m, ret |-> NULL, sp |-> NoBuf]
    ELSE LET node == m.next[h]
             m1 == list_del(m, node)
             len == min(bufsize - 1, strlen(m.value[node]) + 1)
         IN  [mem |-> m1, ret |-> node,
              sp |-> CopyLoop(NoBuf, m.value[node], len, len)]

q_remove_head(m, h, p, bufsize) ==
    IF h = NULL \/ list_empty(m, h) THEN [mem |-> m, ret |-> NULL, sp |-> NoBuf]
    ELSE LET node == m.next[h]
             m1 == list_del(m, node)
             len == min(min(bufsize - 1, strlen(m.value[node]) + 1),
                        abs_branchless(p.low) - 1)
         IN  [mem |-> m1, ret |-> node,
              sp |-> CopyLoop(NoBuf, m.value[node], len, len)]

\* ---------------------------------------------------------- q_remove_tail
\* A q_remove_tail that also releases the element it unlinks.
q_remove_tail_release(m, h, p, bufsize) ==
    IF h = NULL \/ list_empty(m, h) THEN [mem |-> m, ret |-> NULL, sp |-> NoBuf]
    ELSE LET node == m.prev[h]
             m1 == list_del(m, node)
             len == min(min(bufsize - 1, strlen(m.value[node]) + 1),
                        abs_branchless(p.low) - 1)
         IN  [mem |-> free_node(free_value(m1, node), node), ret |-> node,
              sp |-> CopyLoop(NoBuf, m.value[node], len, len)]

q_remove_tail(m, h, p, bufsize) ==
    IF h = NULL \/ list_empty(m, h) THEN [mem |-> m, ret |-> NULL, sp |-> NoBuf]
    ELSE LET node == m.prev[h]
             m1 == list_del(m, node)
             len == min(min(bufsize - 1, strlen(m.value[node]) + 1),
                        abs_branchless(p.low) - 1)
         IN  [mem |-> m1, ret |-> node,
              sp |-> CopyLoop(NoBuf, m.value[node], len, len)]

\* ------------------------------------------------------ q_release_element
q_release_element(m, e) == free_node(free_value(m, e), e)

\* ----------------------------------------------------------------- q_free
\* One call of free: what it is given (an element's string, an element, the
\* sentinel), of which node, and whether that memory was allocated.
Free(what, n, allocated) == [what |-> what, at |-> n, live |-> allocated]

\* A loop of q_free that frees the elements and leaves their strings.
RECURSIVE FreeLoop_nodes_only(_, _, _, _, _)
FreeLoop_nodes_only(m, l, node, safe, frees) ==
    IF node = l THEN [mem |-> m, frees |-> frees]
    ELSE LET m1 == list_del(m, node)
             m2 == free_node(m1, node)
         IN  FreeLoop_nodes_only(m2, l, safe, m2.next[safe],
                 Append(frees, Free("node", node, node \in m1.live)))

\* list_for_each_safe (node, safe, l) { list_del(node);
\* q_release_element(list_entry(node, element_t, list)); }
\* frees: the calls of free made so far, in order.
RECURSIVE FreeLoop(_, _, _, _, _)
FreeLoop(m, l, node, safe, frees) ==
    IF node = l THEN [mem |-> m, frees |-> frees]
    ELSE LET m1 == list_del(m, node)
             m2 == q_release_element(m1, node)
         IN  FreeLoop(m2, l, safe, m2.next[safe],
                 frees \o << Free("value", node, node \in m1.strLive),
                             Free("node", node, node \in m1.live) >>)

\* free(l) ends it: l is the queue the caller holds, so it is allocated.
q_free(m, l) ==
    IF l = NULL THEN [mem |-> m, frees |-> << >>]
    ELSE LET r == FreeLoop(m, l, m.next[l], m.next[m.next[l]], << >>)
         IN  [mem |-> SetPrev(SetNext(r.mem, l, NULL), l, NULL),
              frees |-> Append(r.frees, Free("head", l, TRUE))]

\* ----------------------------------------------------------------- q_size
\* list_for_each (node, head) len++;
RECURSIVE SizeLoop(_, _, _, _)
SizeLoop(m, h, node, len) ==
    IF node # h THEN SizeLoop(m, h, m.next[node], len + 1) ELSE len

\* A q_size that counts the sentinel too.
q_size_with_sentinel(m, h) ==
    IF h = NULL \/ list_empty(m, h) THEN 0
    ELSE SizeLoop(m, h, m.next[h], 1)

q_size(m, h) ==
    IF h = NULL \/ list_empty(m, h) THEN 0
    ELSE SizeLoop(m, h, m.next[h], 0)

\* ----------------------------------------------------------- q_delete_mid
\* The loop of q_delete_mid: two cursors, next going forward from the first
\* element and prev going backward from the last, until node is set.
\* iters holds the cursors <<next, prev>> each run of the body began with.
\* A loop that takes the forward cursor when the cursors become adjacent.
RECURSIVE MidLoop_forward(_, _, _, _, _)
MidLoop_forward(m, node, nx, pv, iters) ==
    IF node = NULL
    THEN LET n1 == IF nx = pv THEN nx ELSE node
             n2 == IF m.next[nx] = pv THEN nx ELSE n1
         IN  MidLoop_forward(m, n2, m.next[nx], m.prev[pv],
                             Append(iters, <<nx, pv>>))
    ELSE [node |-> node, iters |-> iters]

\* A loop that moves the cursors before it compares them.
RECURSIVE MidLoop_late(_, _, _, _, _)
MidLoop_late(m, node, nx, pv, iters) ==
    IF node = NULL
    THEN LET nx1 == m.next[nx]
             pv1 == m.prev[pv]
             n1 == IF nx1 = pv1 THEN nx1 ELSE node
             n2 == IF m.next[nx1] = pv1 THEN pv1 ELSE n1
         IN  MidLoop_late(m, n2, nx1, pv1, Append(iters, <<nx, pv>>))
    ELSE [node |-> node, iters |-> iters]

RECURSIVE MidLoop(_, _, _, _, _)
MidLoop(m, node, nx, pv, iters) ==
    IF node = NULL
    THEN LET n1 == IF nx = pv THEN nx ELSE node
             n2 == IF m.next[nx] = pv THEN pv ELSE n1
         IN  MidLoop(m, n2, m.next[nx], m.prev[pv], Append(iters, <<nx, pv>>))
    ELSE [node |-> node, iters |-> iters]

q_delete_mid(m, h) ==
    IF h = NULL \/ list_empty(m, h) THEN [mem |-> m, ret |-> FALSE]
    ELSE LET node == MidLoop(m, NULL, m.next[h], m.prev[h], << >>).node
             m1 == list_del(m, node)
         IN  [mem |-> q_release_element(m1, node), ret |-> TRUE]

\* ----------------------------------------------------------------- strcmp
\* strcmp(s, t): negative, zero or positive, by the first byte that differs
\* (the terminator, 0, included).
RECURSIVE strcmp(_, _)
strcmp(s, t) ==
    IF s = <<>> /\ t = <<>> THEN 0
    ELSE IF s = <<>> THEN -1
    ELSE IF t = <<>> THEN 1
    ELSE IF s[1] # t[1] THEN (IF s[1] < t[1] THEN -1 ELSE 1)
    ELSE strcmp(Tail(s), Tail(t))

\* ------------------------------------------------------- bit operations
\* x & y and x | y for x, y >= 0
RECURSIVE BitAnd(_, _)
BitAnd(x, y) ==
    IF x = 0 \/ y = 0 THEN 0
    ELSE (x % 2) * (y % 2) + 2 * BitAnd(x \div 2, y \div 2)

\* x & mask and a | b where the mask (or a) may also be -1, all bits set
MaskAnd(x, mask) == IF mask = -1 THEN x ELSE BitAnd(x, mask)
\* The mask of -(a | b): the negation taken after the or.
MaskOr_neg_all(a, b) == IF a = -1 \/ b = 1 THEN -1 ELSE 0

MaskOr(a, b) == IF a = -1 THEN -1 ELSE a + b - BitAnd(a, b)

\* ----------------------------------------------------------- q_delete_dup
\* The string a char pointer points at: the pointer is the address of the
\* value of a live element.
StrAt(m, a) ==
    IF \E e \in m.strLive : StrAddr(e) = a
    THEN m.value[CHOOSE e \in m.strLive : StrAddr(e) = a]
    ELSE NoStr

\* del_patten && !strcmp(del_patten, node->value)
DupHit(m, del_patten, node) ==
    del_patten # 0 /\ strcmp(StrAt(m, del_patten), m.value[node]) = 0

\* The for loop of q_delete_dup; del_patten is an address, 0 when null.
RECURSIVE DupLoop(_, _, _, _, _)
DupLoop(m, h, node, safe, del_patten) ==
    IF safe # h
    THEN LET mask == MaskOr(-(IF strcmp(m.value[node], m.value[safe]) = 0
                               THEN 1 ELSE 0),
                            IF StrAddr(node) = del_patten THEN 1 ELSE 0)
             dp == MaskAnd(StrAddr(safe), mask)
             m1 == IF DupHit(m, dp, node)
                   THEN q_release_element(list_del(m, node), node)
                   ELSE m
         IN  DupLoop(m1, h, safe, m1.next[safe], dp)
    ELSE [mem |-> m, node |-> node, del_patten |-> del_patten]

q_delete_dup(m, h) ==
    IF h = NULL THEN [mem |-> m, ret |-> FALSE]
    ELSE LET node == m.next[h]
             l == DupLoop(m, h, node, m.next[node], 0)
         IN  IF DupHit(l.mem, l.del_patten, l.node)
             THEN [mem |-> q_release_element(list_del(l.mem, l.node), l.node),
                   ret |-> TRUE]
             ELSE [mem |-> l.mem, ret |-> TRUE]

\* ----------------------------------------------------------------- q_swap
\* list_for_each_safe (node, safe, head) { ... }
\* A loop that puts the node back with list_add_tail, before safe.
RECURSIVE SwapLoop_add_tail(_, _, _, _)
SwapLoop_add_tail(m, h, node, safe) ==
    IF node = h THEN m
    ELSE IF safe = h THEN m
    ELSE LET m1 == list_del(m, node)
             m2 == list_add_tail(m1, node, safe)
             safe1 == m2.next[node]
         IN  SwapLoop_add_tail(m2, h, safe1, m2.next[safe1])

\* A loop that unlinks the node and does not put it back.
RECURSIVE SwapLoop_unlink_only(_, _, _, _)
SwapLoop_unlink_only(m, h, node, safe) ==
    IF node = h THEN m
    ELSE IF safe = h THEN m
    ELSE LET m1 == list_del(m, node)
         IN  SwapLoop_unlink_only(m1, h, safe, m1.next[safe])

RECURSIVE SwapLoop(_, _, _, _)
SwapLoop(m, h, node, safe) ==
    IF node = h THEN m
    ELSE IF safe = h THEN m
    ELSE LET m1 == list_del(m, node)
             m2 == list_add(m1, node, safe)
             safe1 == m2.next[node]
         IN  SwapLoop(m2, h, safe1, m2.next[safe1])

q_swap(m, h) ==
    IF h = NULL THEN m
    ELSE LET node == m.next[h] IN SwapLoop(m, h, node, m.next[node])

\* -------------------------------------------------------------- q_reverse
RECURSIVE ReverseLoop(_, _, _, _)
ReverseLoop(m, h, node, safe) ==
    IF node # h
    THEN LET m1 == SetNext(m, node, m.prev[node])
             m2 == SetPrev(m1, node, safe)
         IN  ReverseLoop(m2, h, safe, m2.next[safe])
    ELSE [mem |-> m, node |-> node, safe |-> safe]

\* A q_reverse that leaves the sentinel's links as they were.
q_reverse_elements_only(m, h) ==
    IF h = NULL THEN m
    ELSE LET node == m.next[h]
         IN  ReverseLoop(m, h, node, m.next[node]).mem

q_reverse(m, h) ==
    IF h = NULL THEN m
    ELSE LET node == m.next[h]
             l == ReverseLoop(m, h, node, m.next[node])
             m1 == SetNext(l.mem, l.node, l.mem.prev[l.node])
         IN  SetPrev(m1, l.node, l.safe)

\* ------------------------------------------------------------------ merge
\* tail is a pointer to a pointer: NULL stands for &sorted, a node n for
\* &n->next.
\* A merge with the comparison turned round (strcmp >= 0).
RECURSIVE MergeLoop_descending(_, _, _, _, _)
MergeLoop_descending(m, sorted, tail, a, b) ==
    IF a # NULL /\ b # NULL
    THEN LET fromA == strcmp(m.value[a], m.value[b]) >= 0
             temp == IF fromA THEN a ELSE b
             m1 == IF tail = NULL THEN m ELSE SetNext(m, tail, temp)
             sorted1 == IF tail = NULL THEN temp ELSE sorted
         IN  MergeLoop_descending(m1, sorted1, temp,
                                  IF fromA THEN m1.next[a] ELSE a,
                                  IF fromA THEN b ELSE m1.next[b])
    ELSE LET rest == IF a # NULL THEN a ELSE b
         IN  IF tail = NULL THEN [mem |-> m, head |-> rest]
             ELSE [mem |-> SetNext(m, tail, rest), head |-> sorted]

\* A merge that takes from the second chain on a tie (strcmp < 0).
RECURSIVE MergeLoop_strict(_, _, _, _, _)
MergeLoop_strict(m, sorted, tail, a, b) ==
    IF a # NULL /\ b # NULL
    THEN LET fromA == strcmp(m.value[a], m.value[b]) < 0
             temp == IF fromA THEN a ELSE b
             m1 == IF tail = NULL THEN m ELSE SetNext(m, tail, temp)
             sorted1 == IF tail = NULL THEN temp ELSE sorted
         IN  MergeLoop_strict(m1, sorted1, temp,
                              IF fromA THEN m1.next[a] ELSE a,
                              IF fromA THEN b ELSE m1.next[b])
    ELSE LET rest == IF a # NULL THEN a ELSE b
         IN  IF tail = NULL THEN [mem |-> m, head |-> rest]
             ELSE [mem |-> SetNext(m, tail, rest), head |-> sorted]

RECURSIVE MergeLoop(_, _, _, _, _)
MergeLoop(m, sorted, tail, a, b) ==
    IF a # NULL /\ b # NULL
    THEN LET fromA == strcmp(m.value[a], m.value[b]) <= 0
             temp == IF fromA THEN a ELSE b
             m1 == IF tail = NULL THEN m ELSE SetNext(m, tail, temp)
             sorted1 == IF tail = NULL THEN temp ELSE sorted
         IN  MergeLoop(m1, sorted1, temp,
                       IF fromA THEN m1.next[a] ELSE a,
                       IF fromA THEN b ELSE m1.next[b])
    ELSE LET rest == IF a # NULL THEN a ELSE b
         IN  IF tail = NULL THEN [mem |-> m, head |-> rest]
             ELSE [mem |-> SetNext(m, tail, rest), head |-> sorted]

merge(m, a, b) == MergeLoop(m, NULL, NULL, a, b)

\* ------------------------------------------------------------- merge_sort
\* for (mid = head, last = head->next; last && last->next;
\*      mid = mid->next, last = last->next->next);
RECURSIVE SplitLoop(_, _, _)
SplitLoop(m, mid, last) ==
    IF last # NULL /\ m.next[last] # NULL
    THEN SplitLoop(m, m.next[mid], m.next[m.next[last]])
    ELSE mid

RECURSIVE merge_sort(_, _)
merge_sort(m, hd) ==
    IF m.next[hd] = NULL THEN [mem |-> m, head |-> hd]
    ELSE LET last == SplitLoop(m, hd, m.next[hd])
             mid == m.next[last]
             m1 == SetNext(m, last, NULL)
             l == merge_sort(m1, hd)
             r == merge_sort(l.mem, mid)
         IN  merge(r.mem, l.head, r.head)

\* ----------------------------------------------------------------- q_sort
\* while (tail->next) { tail->next->prev = tail; tail = tail->next; }
\* A loop that walks to the tail and stores no prev link.
RECURSIVE RelinkLoop_no_prev(_, _)
RelinkLoop_no_prev(m, tail) ==
    IF m.next[tail] # NULL
    THEN RelinkLoop_no_prev(m, m.next[tail])
    ELSE [mem |-> m, tail |-> tail]

RECURSIVE RelinkLoop(_, _)
RelinkLoop(m, tail) ==
    IF m.next[tail] # NULL
    THEN RelinkLoop(SetPrev(m, m.next[tail], tail), m.next[tail])
    ELSE [mem |-> m, tail |-> tail]

q_sort(m, h) ==
    IF h = NULL THEN m
    ELSE IF m.next[h] = m.prev[h] THEN m
    ELSE LET m1 == SetNext(m, m.prev[h], NULL)
             s == merge_sort(m1, m1.next[h])
             m2 == SetNext(s.mem, h, s.head)
             m3 == SetPrev(m2, s.head, h)
             l == RelinkLoop(m3, s.head)
             m4 == SetPrev(l.mem, h, l.tail)
         IN  SetNext(m4, l.tail, h)

\* =================================================== the queue operations
\* The strings the callers of the basic operations insert: "a" and "aa".
InsertStrings == { <<97>>, <<97, 97>> }

\* After construction: q_new has returned the empty queue, or NULL.
Init ==
    /\ \E ok \in BOOLEAN :
          LET r == q_new(EmptyMem, ok) IN
          /\ head = r.ret
          /\ next = r.mem.next
          /\ prev = r.mem.prev
          /\ value = r.mem.value
          /\ live = r.mem.live
          /\ strLive = r.mem.strLive
    /\ op = "q_new"
    /\ ret = head
    /\ pre = <<>>
    /\ log = <<>>
    /\ sp = NoBuffer

\* What every call records: its name, its result, the queue before it.
Called(name, r) ==
    /\ op' = name
    /\ ret' = r
    /\ pre' = Queue(Mem, head)
    /\ UNCHANGED head

Logged(name, r, e, s) ==
    log' = IF r THEN Append(log, [call |-> name, node |-> e, str |-> s]) ELSE log

InsertHead ==
    /\ Len(log) < MaxCalls
    /\ \E s \in InsertStrings, node \in Malloc(Mem), dup \in BOOLEAN :
          LET r == q_insert_head(Mem, head, s, node, dup) IN
          /\ Store(r.mem)
          /\ Called("q_insert_head", r.ret)
          /\ Logged("q_insert_head", r.ret, node, s)
          /\ sp' = NoBuffer

InsertTail ==
    /\ Len(log) < MaxCalls
    /\ \E s \in InsertStrings, node \in Malloc(Mem), dup \in BOOLEAN :
          LET r == q_insert_tail(Mem, head, s, node, dup) IN
          /\ Store(r.mem)
          /\ Called("q_insert_tail", r.ret)
          /\ Logged("q_insert_tail", r.ret, node, s)
          /\ sp' = NoBuffer

RemoveHead ==
    /\ Len(log) < MaxCalls
    /\ \E p \in SpPtrs, bufsize \in BufSizes :
          LET r == q_remove_head(Mem, head, p, bufsize) IN
          /\ Store(r.mem)
          /\ Called("q_remove_head", r.ret)
          /\ Logged("q_remove_head", r.ret # NULL, r.ret,
                    IF r.ret # NULL THEN value[r.ret] ELSE NoStr)
          /\ sp' = Buffer(p, bufsize, r.sp)

RemoveTail ==
    /\ Len(log) < MaxCalls
    /\ \E p \in SpPtrs, bufsize \in BufSizes :
          LET r == q_remove_tail(Mem, head, p, bufsize) IN
          /\ Store(r.mem)
          /\ Called("q_remove_tail", r.ret)
          /\ Logged("q_remove_tail", r.ret # NULL, r.ret,
                    IF r.ret # NULL THEN value[r.ret] ELSE NoStr)
          /\ sp' = Buffer(p, bufsize, r.sp)

\* The elements a removal handed to the caller and the caller still owns.
Held == live \ {Fwd(Mem, head)[i] : i \in 1 .. Len(Fwd(Mem, head))}

Release ==
    \E e \in Held :
        /\ Store(q_release_element(Mem, e))
        /\ Called("q_release_element", e)
        /\ UNCHANGED log
        /\ sp' = NoBuffer

Size ==
    /\ Called("q_size", q_size(Mem, head))
    /\ UNCHANGED <<next, prev, value, live, strLive, log>>
    /\ sp' = NoBuffer

\* q_free returns nothing: recorded in ret are the calls of free it made.
\* The caller has no queue afterwards, and so no calls on it to remember.
QFree ==
    LET r == q_free(Mem, head) IN
    /\ Store(r.mem)
    /\ op' = "q_free"
    /\ ret' = r.frees
    /\ pre' = Queue(Mem, head)
    /\ head' = NULL
    /\ log' = << >>
    /\ sp' = NoBuffer

Next ==
    \/ InsertHead
    \/ InsertTail
    \/ RemoveHead
    \/ RemoveTail
    \/ Release
    \/ Size
    \/ QFree

Spec == Init /\ [][Next]_vars

\* ============================================= the transformations, alone
\* The queue q_insert_tail builds from the strings of ss, in order, with
\* every allocation succeeding.
RECURSIVE BuildFrom(_, _, _)
BuildFrom(m, ss, i) ==
    IF i > Len(ss) THEN m
    ELSE LET node == CHOOSE e \in Malloc(m) : e # NULL
         IN  BuildFrom(q_insert_tail(m, Sentinel, ss[i], node, TRUE).mem, ss, i + 1)

Build(ss) == BuildFrom(q_new(EmptyMem, TRUE).mem, ss, 1)

\* The queues the transformations start on: every queue of at most MaxLen
\* strings of Strings, and every queue of distinct letters.
StartQueues ==
    (UNION {[1 .. n -> Strings] : n \in 0 .. MaxLen}) \cup
    {ss \in UNION {[1 .. n -> Letters] : n \in 0 .. MaxNodes} :
        \A i, j \in 1 .. Len(ss) : i # j => ss[i] # ss[j]}

InitT ==
    /\ \/ \E ss \in StartQueues :
             LET m == Build(ss) IN
             /\ head = Sentinel
             /\ next = m.next
             /\ prev = m.prev
             /\ value = m.value
             /\ live = m.live
             /\ strLive = m.strLive
       \/ /\ head = NULL
          /\ next = EmptyMem.next
          /\ prev = EmptyMem.prev
          /\ value = EmptyMem.value
          /\ live = {}
          /\ strLive = {}
    /\ op = "q_new"
    /\ ret = head
    /\ pre = <<>>
    /\ log = <<>>
    /\ sp = NoBuffer

\* One transformation is applied to the queue drawn.
Step ==
    /\ op = "q_new"
    /\ UNCHANGED <<log, sp>>

DeleteMid ==
    /\ Step
    /\ LET r == q_delete_mid(Mem, head) IN
       /\ Store(r.mem)
       /\ Called("q_delete_mid", r.ret)

DeleteDup ==
    /\ Step
    /\ LET r == q_delete_dup(Mem, head) IN
       /\ Store(r.mem)
       /\ Called("q_delete_dup", r.ret)

Swap ==
    /\ Step
    /\ Store(q_swap(Mem, head))
    /\ Called("q_swap", head)

ReverseQ ==
    /\ Step
    /\ Store(q_reverse(Mem, head))
    /\ Called("q_reverse", head)

Sort ==
    /\ Step
    /\ Store(q_sort(Mem, head))
    /\ Called("q_sort", head)

NextT ==
    \/ DeleteMid
    \/ DeleteDup
    \/ Swap
    \/ ReverseQ
    \/ Sort

SpecT == InitT /\ [][NextT]_vars

\* ============================================== every operation, any order
\* The calls that changed the queue are counted here, not remembered, and a
\* transformation counts as one whatever it does: log holds one entry a call.
MaxOps == 5

Counted(r) == Logged("call", r, NULL, NoStr)

InsertHeadAny ==
    /\ Len(log) < MaxOps
    /\ \E s \in InsertStrings, node \in Malloc(Mem), dup \in BOOLEAN :
          LET r == q_insert_head(Mem, head, s, node, dup) IN
          /\ Store(r.mem)
          /\ Called("q_insert_head", r.ret)
          /\ Counted(r.ret)
          /\ sp' = NoBuffer

InsertTailAny ==
    /\ Len(log) < MaxOps
    /\ \E s \in InsertStrings, node \in Malloc(Mem), dup \in BOOLEAN :
          LET r == q_insert_tail(Mem, head, s, node, dup) IN
          /\ Store(r.mem)
          /\ Called("q_insert_tail", r.ret)
          /\ Counted(r.ret)
          /\ sp' = NoBuffer

\* The removals are called without a buffer here: what the copy stores is no
\* part of the queue.
RemoveHeadAny ==
    /\ Len(log) < MaxOps
    /\ LET r == q_remove_head(Mem, head, [null |-> TRUE, low |-> 0], 0) IN
       /\ Store(r.mem)
       /\ Called("q_remove_head", r.ret)
       /\ Counted(r.ret # NULL)
       /\ sp' = NoBuffer

RemoveTailAny ==
    /\ Len(log) < MaxOps
    /\ LET r == q_remove_tail(Mem, head, [null |-> TRUE, low |-> 0], 0) IN
       /\ Store(r.mem)
       /\ Called("q_remove_tail", r.ret)
       /\ Counted(r.ret # NULL)
       /\ sp' = NoBuffer

AnyTime ==
    /\ Len(log) < MaxOps
    /\ Counted(TRUE)
    /\ sp' = NoBuffer

DeleteMidAny ==
    /\ AnyTime
    /\ LET r == q_delete_mid(Mem, head) IN
       /\ Store(r.mem)
       /\ Called("q_delete_mid", r.ret)

DeleteDupAny ==
    /\ AnyTime
    /\ LET r == q_delete_dup(Mem, head) IN
       /\ Store(r.mem)
       /\ Called("q_delete_dup", r.ret)

SwapAny ==
    /\ AnyTime
    /\ Store(q_swap(Mem, head))
    /\ Called("q_swap", head)

ReverseAny ==
    /\ AnyTime
    /\ Store(q_reverse(Mem, head))
    /\ Called("q_reverse", head)

SortAny ==
    /\ AnyTime
    /\ Store(q_sort(Mem, head))
    /\ Called("q_sort", head)

NextAll ==
    \/ InsertHeadAny
    \/ InsertTailAny
    \/ RemoveHeadAny
    \/ RemoveTailAny
    \/ Release
    \/ Size
    \/ QFree
    \/ DeleteMidAny
    \/ DeleteDupAny
    \/ SwapAny
    \/ ReverseAny
    \/ SortAny

SpecAll == Init /\ [][NextAll]_vars

\* ================================================================ claims
\* The queue now.
Post == Queue(Mem, head)

\* The successful insertions and the successful removals so far.
Inserted == {i \in DOMAIN log : log[i].call \in {"q_insert_head", "q_insert_tail"}}
Removed == {i \in DOMAIN log : log[i].call \in {"q_remove_head", "q_remove_tail"}}

\* The log is n successful calls of ins followed by calls of q_remove_head only.
Phased(ins, n) ==
    /\ \A i \in 1 .. n : log[i].call = ins
    /\ \A i \in n + 1 .. Len(log) : log[i].call = "q_remove_head"

\* C1 (FIFO): when, from the empty queue, the successful calls are n calls of
\* q_insert_tail followed by calls of q_remove_head, the j-th removal returns
\* the element of the j-th insertion, holding the string inserted.
C1_Fifo ==
    \A n \in 0 .. Len(log) :
        Phased("q_insert_tail", n) =>
            \A j \in 1 .. Len(log) - n :
                /\ j <= n
                /\ log[n + j].node = log[j].node
                /\ log[n + j].str = log[j].str

\* Two elements with different strings went in at the tail and both came out.
C1_Witness ==
    /\ Len(log) = 4
    /\ Phased("q_insert_tail", 2)
    /\ log[1].str # log[2].str
    /\ op = "q_remove_head"
    /\ ret = log[2].node

\* C2 (LIFO): when, from the empty queue, the successful calls are n calls of
\* q_insert_head followed by calls of q_remove_head, the j-th removal returns
\* the element of the j-th last insertion, holding the string inserted.
C2_Lifo ==
    \A n \in 0 .. Len(log) :
        Phased("q_insert_head", n) =>
            \A j \in 1 .. Len(log) - n :
                /\ j <= n
                /\ log[n + j].node = log[n + 1 - j].node
                /\ log[n + j].str = log[n + 1 - j].str

\* Two elements with different strings went in at the head and both came out.
C2_Witness ==
    /\ Len(log) = 4
    /\ Phased("q_insert_head", 2)
    /\ log[1].str # log[2].str
    /\ op = "q_remove_head"
    /\ ret = log[1].node

\* C3: after n successful insertions and k successful removals at either end,
\* in any order, q_size is n - k, as a call of it returns; it is 0 for a null
\* and for an empty queue.
C3_Size ==
    /\ q_size(Mem, head) = Cardinality(Inserted) - Cardinality(Removed)
    /\ op = "q_size" => ret = Cardinality(Inserted) - Cardinality(Removed)
    /\ (head = NULL \/ Post = <<>>) => q_size(Mem, head) = 0

\* q_size returned 2 after three insertions, at both ends, and one removal.
C3_Witness ==
    /\ op = "q_size"
    /\ ret = 2
    /\ Cardinality(Inserted) = 3
    /\ Cardinality(Removed) = 1
    /\ \E i, j \in Inserted : log[i].call # log[j].call

\* ---------------------------------------------------------------- helpers
\* The forward traversal comes back to the sentinel.
Closed ==
    head # NULL =>
        LET f == Fwd(Mem, head) IN
        IF f = <<>> THEN next[head] = head ELSE next[f[Len(f)]] = head

\* Where node n stands in queue q.
Pos(q, n) == CHOOSE i \in 1 .. Len(q) : q[i][1] = n

\* q holds every node once.
Distinct(q) == \A i, j \in 1 .. Len(q) : i # j => q[i][1] # q[j][1]

\* The strings of ss do not decrease.
Ascending(ss) == \A i \in 1 .. Len(ss) - 1 : strcmp(ss[i], ss[i + 1]) <= 0

\* q without its k-th entry.
Without(q, k) == [i \in 1 .. Len(q) - 1 |-> IF i < k THEN q[i] ELSE q[i + 1]]

\* The entries of q picked by keep, in order.
RECURSIVE Filter(_, _, _)
Filter(q, keep, i) ==
    IF i > Len(q) THEN <<>>
    ELSE (IF keep[i] THEN <<q[i]>> ELSE <<>>) \o Filter(q, keep, i + 1)

\* C4: q_sort on a queue of two or more elements leaves the same nodes, each
\* once, with its string, in a traversal that comes back to the sentinel and
\* whose strings do not decrease under strcmp; on a null, an empty or a
\* one-element queue it changes nothing.
C4_Sorted ==
    /\ op = "q_sort" =>
          /\ Len(Post) = Len(pre)
          /\ Distinct(Post)
          /\ {Post[i] : i \in 1 .. Len(Post)} = {pre[i] : i \in 1 .. Len(pre)}
          /\ Closed
          /\ Ascending(StrsOf(Post))
    /\ Len(Post) <= 1 => q_sort(Mem, head) = Mem

\* q_sort has put four elements, which were not in order, in order.
C4_Witness ==
    /\ op = "q_sort"
    /\ Len(pre) >= 4
    /\ ~Ascending(StrsOf(pre))
    /\ ~Ascending(StrsOf(Reverse(pre)))
    /\ Ascending(StrsOf(Post))

\* C5: q_sort is stable: of two nodes with equal strings, the one that came
\* first before q_sort comes first after it.
C5_Stable ==
    op = "q_sort" =>
        \A i, j \in 1 .. Len(pre) :
            (i < j /\ strcmp(pre[i][2], pre[j][2]) = 0) =>
                /\ \E k \in 1 .. Len(Post) : Post[k][1] = pre[i][1]
                /\ \E k \in 1 .. Len(Post) : Post[k][1] = pre[j][1]
                /\ Pos(Post, pre[i][1]) < Pos(Post, pre[j][1])

\* q_sort has moved two nodes with equal strings, which lay in different
\* halves with a smaller string after them, and kept them in order.
C5_Witness ==
    /\ op = "q_sort"
    /\ Len(pre) = 5
    /\ strcmp(pre[2][2], pre[4][2]) = 0
    /\ strcmp(pre[5][2], pre[2][2]) < 0
    /\ Pos(Post, pre[2][1]) < Pos(Post, pre[4][1])
    /\ Pos(Post, pre[2][1]) # 2

\* C6: q_delete_mid on a queue of n >= 1 elements unlinks and frees the
\* element at index n \div 2 (counting from 0 at the head), keeps the others
\* in order and returns true; on a null or empty queue it returns false and
\* changes nothing.
C6_DeleteMid ==
    /\ (op = "q_delete_mid" /\ pre # <<>>) =>
          LET mid == (Len(pre) \div 2) + 1 IN
          /\ ret = TRUE
          /\ Post = Without(pre, mid)
          /\ Closed
          /\ pre[mid][1] \notin live
          /\ pre[mid][1] \notin strLive
          /\ \A i \in 1 .. Len(Post) : Post[i][1] \in live \cap strLive
    /\ (op = "q_delete_mid" /\ pre = <<>>) => ret = FALSE
    /\ (head = NULL \/ Post = <<>>) =>
          q_delete_mid(Mem, head) = [mem |-> Mem, ret |-> FALSE]

\* q_delete_mid has taken the middle out of a queue of four and of five.
C6_Witness ==
    /\ op = "q_delete_mid"
    /\ ret = TRUE
    /\ Len(pre) \in {4, 5}
    /\ Post = Without(pre, 3)
    /\ pre[2][2] # pre[3][2]

C8_Stated ==
    (op = "q_delete_dup" /\ Ascending(StrsOf(pre))) =>
        Post = Filter(pre,
                      [i \in 1 .. Len(pre) |->
                          \A j \in 1 .. Len(pre) : j # i => pre[j][2] # pre[i][2]],
                      1)

\* C9: q_swap exchanges the elements of each pair (1st and 2nd, 3rd and 4th,
\* ...), and leaves the last of an odd number where it is; a null or empty
\* queue is unchanged.
C9_Swap ==
    /\ op = "q_swap" =>
          /\ Len(Post) = Len(pre)
          /\ Closed
          /\ \A i \in 1 .. Len(pre) :
                Post[i] = IF i % 2 = 1
                          THEN (IF i < Len(pre) THEN pre[i + 1] ELSE pre[i])
                          ELSE pre[i - 1]
    /\ (head = NULL \/ Post = <<>>) => q_swap(Mem, head) = Mem

\* q_swap has turned "a", "b", "c", "d", "e" into "b", "a", "d", "c", "e".
C9_Witness ==
    /\ op = "q_swap"
    /\ StrsOf(pre) = << <<97>>, <<98>>, <<99>>, <<100>>, <<101>> >>
    /\ StrsOf(Post) = << <<98>>, <<97>>, <<100>>, <<99>>, <<101>> >>

\* C10: q_reverse makes the forward traversal the reverse of what it was, and
\* q_reverse applied twice gives back every next and prev link of the queue.
C10_Reverse ==
    /\ op = "q_reverse" => (Post = Reverse(pre) /\ Closed)
    /\ LET once == q_reverse(Mem, head)
           twice == q_reverse(once, head)
       IN  /\ Queue(once, head) = Reverse(Post)
           /\ Queue(twice, head) = Post
           /\ twice.next = next
           /\ twice.prev = prev

\* q_reverse has reversed a queue of three or more different strings, and a
\* second q_reverse gives back the queue it started from.
C10_Witness ==
    /\ op = "q_reverse"
    /\ Len(pre) >= 3
    /\ pre[1][2] # pre[Len(pre)][2]
    /\ Post = Reverse(pre)
    /\ Queue(q_reverse(Mem, head), head) = pre

\* ----------------------------------------------------- removals, buffer
\* The last call was a removal from a queue that was not empty.
Removal == op \in {"q_remove_head", "q_remove_tail"} /\ pre # <<>>

\* Where the element it had to take stood, and that element.
EndPos == IF op = "q_remove_head" THEN 1 ELSE Len(pre)
RemNode == pre[EndPos][1]
RemStr == pre[EndPos][2]

\* C11 as stated: a removal with a non-null buffer of size B >= 1 leaves in it
\* the first min(B - 1, L) characters of the string removed, then a null
\* terminator, and stores no byte at an index >= B.
C11_Stated ==
    (Removal /\ ~sp.null /\ sp.size >= 1) =>
        LET L == Len(RemStr)
            c == IF sp.size - 1 < L THEN sp.size - 1 ELSE L
        IN  /\ \A k \in 0 .. c - 1 :
                  k \in DOMAIN sp.buf /\ sp.buf[k] = RemStr[k + 1]
            /\ c \in DOMAIN sp.buf /\ sp.buf[c] = 0
            /\ \A k \in DOMAIN sp.buf : k < sp.size

\* C12: a removal from a queue that is not empty returns the former first
\* (last) element and unlinks it, and frees or alters neither the element nor
\* its string, which stay allocated until q_release_element; on a null or
\* empty queue it returns NULL, stores nothing and leaves the memory as it is.
C12_OnlyUnlinks ==
    /\ Removal =>
          /\ ret = RemNode
          /\ Post = Without(pre, EndPos)
          /\ \A i \in 1 .. Len(Post) : Post[i][1] # ret
          /\ ret \in live /\ ret \in strLive
          /\ value[ret] = RemStr
    /\ (op \in {"q_remove_head", "q_remove_tail"} /\ pre = <<>>) =>
          (ret = NULL /\ DOMAIN sp.buf = {})
    /\ \A e \in Held : e \in strLive /\ value[e] # NoStr
    /\ (head = NULL \/ Post = <<>>) =>
          \A p \in SpPtrs, bufsize \in BufSizes :
              /\ q_remove_head(Mem, head, p, bufsize) =
                    [mem |-> Mem, ret |-> NULL, sp |-> NoBuf]
              /\ q_remove_tail(Mem, head, p, bufsize) =
                    [mem |-> Mem, ret |-> NULL, sp |-> NoBuf]

\* q_remove_tail has taken the last of two elements, which the caller holds
\* with its string.
C12_Witness ==
    /\ op = "q_remove_tail"
    /\ Len(pre) = 2
    /\ ret = pre[2][1]
    /\ value[ret] = pre[2][2]
    /\ Held = {ret}

\* C13: a removal called with a null buffer stores no byte through it and
\* reads none of the string, whatever the size passed and the length of the
\* string; from a queue that is not empty it still unlinks and returns the
\* end element.
C13_NullBuffer ==
    (op \in {"q_remove_head", "q_remove_tail"} /\ sp.null) =>
        /\ DOMAIN sp.buf = {}
        /\ sp.rd = -1
        /\ pre # <<>> => (ret = RemNode /\ Post = Without(pre, EndPos))

\* A removal with a null buffer and a size larger than the string has
\* returned the element.
C13_Witness ==
    /\ Removal
    /\ sp.null
    /\ sp.size > Len(RemStr) + 1
    /\ ret = RemNode
    /\ DOMAIN sp.buf = {}

\* C19 as stated: the copy loop reads the string removed at the indices 0 .. L
\* only.
C19_Stated ==
    (Removal /\ ~sp.null) => sp.rd <= Len(RemStr)

\* ------------------------------------------------------ insertion failure
\* C14: an insertion whose element or string allocation fails, or whose queue
\* is null, returns false and leaves the whole memory as it was: the queue
\* keeps its elements and nothing stays allocated.
C14_InsertFailure ==
    /\ (op \in {"q_insert_head", "q_insert_tail"} /\ ret = FALSE) =>
          (Post = pre /\ strLive = live)
    /\ \A s \in InsertStrings, node \in Malloc(Mem), dup \in BOOLEAN :
          (head = NULL \/ node = NULL \/ ~dup) =>
              /\ q_insert_head(Mem, head, s, node, dup) =
                    [mem |-> Mem, ret |-> FALSE]
              /\ q_insert_tail(Mem, head, s, node, dup) =
                    [mem |-> Mem, ret |-> FALSE]

\* An insertion at the tail of a queue of two elements has failed, while free
\* nodes remain for malloc to return.
C14_Witness ==
    /\ op = "q_insert_tail"
    /\ ret = FALSE
    /\ head # NULL
    /\ Len(pre) = 2
    /\ Post = pre
    /\ Malloc(Mem) # {NULL}

\* ------------------------------------------------------------------ q_free
\* The nodes of a queue, and how often free was called on a thing.
NodesOf(q) == {q[i][1] : i \in 1 .. Len(q)}
FreedTimes(frees, what, n) ==
    Cardinality({i \in 1 .. Len(frees) : frees[i].what = what /\ frees[i].at = n})

\* C15: q_free frees the string and the node of every element linked in the
\* queue exactly once, the string before the node, and the sentinel once at
\* the end; it frees nothing that is not allocated, so nothing twice, and
\* leaves the elements the caller removed and still holds; q_free(NULL) does
\* nothing.
C15_FreesOnce ==
    /\ op = "q_free" =>
          /\ head = NULL
          /\ \A i \in 1 .. Len(ret) : ret[i].live
          /\ \A e \in NodesOf(pre) :
                /\ FreedTimes(ret, "value", e) = 1
                /\ FreedTimes(ret, "node", e) = 1
                /\ \E i, j \in 1 .. Len(ret) :
                      /\ i < j
                      /\ ret[i] = Free("value", e, TRUE)
                      /\ ret[j] = Free("node", e, TRUE)
                /\ e \notin live /\ e \notin strLive
          /\ ret # << >> =>
                /\ Len(ret) = 2 * Len(pre) + 1
                /\ ret[Len(ret)] = Free("head", Sentinel, TRUE)
          /\ ret = << >> => pre = << >>
    /\ LET r == q_free(Mem, head) IN
          /\ r.mem.live = Held
          /\ r.mem.strLive = Held
          /\ \A e \in Held : r.mem.value[e] = value[e]
    /\ q_free(Mem, NULL) = [mem |-> Mem, frees |-> << >>]

\* q_free has freed a queue of two elements while the caller holds a third.
C15_Witness ==
    /\ op = "q_free"
    /\ Len(pre) = 2
    /\ Len(ret) = 5
    /\ Cardinality(live) = 1
    /\ strLive = live

\* ------------------------------------------------- relinking, no allocation
\* C16: q_swap, q_reverse and q_sort allocate and free nothing: the queue
\* holds the same element nodes afterwards, each once, every one still
\* allocated with the string it had, and nothing else is allocated.
C16_RelinkOnly ==
    /\ op \in {"q_swap", "q_reverse", "q_sort"} =>
          /\ Len(Post) = Len(pre)
          /\ NodesOf(Post) = NodesOf(pre)
          /\ Distinct(Post)
          /\ \A i \in 1 .. Len(pre) : value[pre[i][1]] = pre[i][2]
          /\ live = NodesOf(pre)
          /\ strLive = NodesOf(pre)
    /\ \A m \in {q_swap(Mem, head), q_reverse(Mem, head), q_sort(Mem, head)} :
          /\ m.live = live
          /\ m.strLive = strLive
          /\ m.value = value

\* q_swap has changed the order of a queue of five elements.
C16_Witness ==
    /\ op = "q_swap"
    /\ Len(pre) = 5
    /\ Post # pre
    /\ NodesOf(Post) = NodesOf(pre)
    /\ live = NodesOf(pre)

\* --------------------------------------------------- circular consistency
\* C17: after any sequence of the operations from q_new on, the queue is a
\* well-formed circular doubly linked list: going forward from the sentinel
\* comes back to it, over distinct allocated elements; for the sentinel and
\* every element n, n->next->prev = n and n->prev->next = n; and going
\* backward visits the same elements in the opposite order.
C17_Circular ==
    head # NULL =>
        LET f == Fwd(Mem, head)
            ring == {head} \cup {f[i] : i \in 1 .. Len(f)}
        IN  /\ Closed
            /\ \A i, j \in 1 .. Len(f) : i # j => f[i] # f[j]
            /\ \A i \in 1 .. Len(f) : f[i] \in live \cap strLive
            /\ \A n \in ring :
                  /\ next[n] \in ring /\ prev[n] \in ring
                  /\ prev[next[n]] = n
                  /\ next[prev[n]] = n
            /\ Bwd(Mem, head) = Reverse(f)

\* q_sort has reordered the queue, after insertions and a removal whose
\* element the caller still holds.
C17_Witness ==
    /\ op = "q_sort"
    /\ Len(pre) = 2
    /\ Post # pre
    /\ Held # {}
    /\ prev[head] = Post[2][1]

\* ------------------------------------------------- q_delete_dup, safety
\* The entries of q whose string no other entry of q has.
Unique(q) == {i \in 1 .. Len(q) : \A j \in 1 .. Len(q) : j # i => q[j][2] # q[i][2]}

\* C18: on a sorted queue q_delete_dup returns true, removes no element whose
\* string occurs once, leaves the elements it keeps in their order, allocated
\* and with their strings, links none of the elements it freed, and leaves an
\* empty or a one-element queue as it is.
C18_DeleteDupSafe ==
    /\ (op = "q_delete_dup" /\ head # NULL /\ Ascending(StrsOf(pre))) =>
          /\ ret = TRUE
          /\ \A i \in Unique(pre) : \E k \in 1 .. Len(Post) : Post[k] = pre[i]
          /\ \A k \in 1 .. Len(Post) :
                /\ \E i \in 1 .. Len(pre) : pre[i] = Post[k]
                /\ Post[k][1] \in live \cap strLive
          /\ \A k, l \in 1 .. Len(Post) :
                k < l => Pos(pre, Post[k][1]) < Pos(pre, Post[l][1])
          /\ Bwd(Mem, head) = Reverse(Fwd(Mem, head))
          /\ Closed
          /\ Len(pre) <= 1 => Post = pre
    /\ (head # NULL /\ Len(Post) <= 1) =>
          q_delete_dup(Mem, head) = [mem |-> Mem, ret |-> TRUE]

\* On a sorted queue of five, q_delete_dup has removed elements and kept the
\* two whose strings occur once.
C18_Witness ==
    /\ op = "q_delete_dup"
    /\ Len(pre) = 5
    /\ Ascending(StrsOf(pre))
    /\ Cardinality(Unique(pre)) = 2
    /\ Len(Post) < Len(pre)
    /\ \A i \in Unique(pre) : \E k \in 1 .. Len(Post) : Post[k] = pre[i]

====
